---- MODULE Spec2Model ----
(***************************************************************************)
(* Model of src/src/extension.ts: the PHPCSFIXER coordinator (readConfig,  *)
(* getArgs, fixDocument, the save hook) together with the parts of its     *)
(* environment it talks to: the child process, the temp directory, the     *)
(* host's save listeners and notifications.                                *)
(*                                                                         *)
(* Text is a sequence of tokens (a token is a piece of text that no        *)
(* operation of the program cuts): "a" + "b" is <<"a">> \o <<"b">>, the    *)
(* empty string is <<>>.                                                   *)
(***************************************************************************)
EXTENDS Naturals, Sequences, FiniteSets, TLC

\* ------------------------------------------------------------------ bounds
MaxOps == 2        \* fix requests accepted in one behaviour
MaxStderr == 3     \* tokens one process writes to stderr, over all its data events
MaxEntries == 2    \* entries of the `config` setting (SpecArgs)

\* ------------------------------------------------------------ text helpers
RECURSIVE IndexFrom(_, _, _)
\* s.indexOf(sub) searched from position i on (1-based), 0 when absent.
IndexFrom(s, sub, i) ==
  IF i + Len(sub) - 1 > Len(s) THEN 0
  ELSE IF SubSeq(s, i, i + Len(sub) - 1) = sub THEN i
  ELSE IndexFrom(s, sub, i + 1)

IndexOf(s, sub) == IndexFrom(s, sub, 1)

\* String.prototype.includes
Includes(s, sub) == IndexOf(s, sub) # 0

RECURSIVE Split(_, _)
\* String.prototype.split with a one-token separator: always at least one piece.
Split(s, sep) ==
  LET i == IndexOf(s, <<sep>>)
  IN IF i = 0 THEN <<s>>
     ELSE <<SubSeq(s, 1, i - 1)>> \o Split(SubSeq(s, i + 1, Len(s)), sep)

RECURSIVE Join(_, _)
\* Array.prototype.join: the raw text of a list of entries.
Join(l, sep) ==
  IF l = <<>> THEN <<>>
  ELSE IF Len(l) = 1 THEN l[1]
  ELSE l[1] \o <<sep>> \o Join(Tail(l), sep)

RECURSIVE Filter(_, _)
Filter(l, drop) ==
  IF l = <<>> THEN <<>>
  ELSE IF Head(l) = drop THEN Filter(Tail(l), drop)
  ELSE <<Head(l)>> \o Filter(Tail(l), drop)

RECURSIVE LastIndex(_, _, _)
\* Highest position of token tok in s at or below i, 0 when absent.
LastIndex(s, tok, i) ==
  IF i = 0 THEN 0
  ELSE IF s[i] = tok THEN i
  ELSE LastIndex(s, tok, i - 1)

\* All sequences over S of length lo..hi.
SeqsOf(S, lo, hi) == UNION {[1..n -> S] : n \in lo..hi}

\* --------------------------------------------------------------- JS values
Undefined == [t |-> "undefined", s |-> <<>>]
StringVal(s) == [t |-> "string", s |-> s]
ErrorVal(s) == [t |-> "error", s |-> <<s>>]
\* A structured mapping: o is the list of its <<key, value>> pairs.
ObjectVal(o) == [t |-> "object", s |-> o]

\* JavaScript truthiness of the values above.
Truthy(v) ==
  CASE v.t = "undefined" -> FALSE
    [] v.t = "string" -> v.s # <<>>
    [] OTHER -> TRUE

\* ------------------------------------------------------------- environment
HomeDir == <<"/home/u">>          \* os.homedir()
TmpDir == <<"/tmp">>              \* os.tmpdir()
ExtensionDir == <<"/ext">>        \* __dirname
Root == <<"/w">>                  \* the workspace folder's fsPath
\* Tokens that begin with a slash.
SlashTokens == {"/", "/home/u", "/tmp", "/ext", "/w", "/o", "/etc"}

\* path.isAbsolute (posix)
isAbsolute(file) == file # <<>> /\ Head(file) \in SlashTokens

\* f.replace(/^~\//, homedir() + '/')
ExpandHome(f) ==
  IF f # <<>> /\ Head(f) = "~/" THEN HomeDir \o <<"/">> \o Tail(f) ELSE f

\* The documents the editor may have active: fsPath of the document.
Docs == { <<"/w", "/", "src", "/", "a.php">>, <<"/o", "/", "a.php">> }

\* workspace.getWorkspaceFolder(uri): the folder that contains the document.
WorkspaceFolderOf(fsPath) == IF Head(fsPath) = Head(Root) THEN StringVal(Root) ELSE Undefined

\* The temp file contents the formatter may leave: nothing, the text unchanged,
\* another text.
Contents == { <<>>, <<"<?php echo 1;">>, <<"<?php echo 2;">> }
\* document.getText(): an empty document and one with text.
DocTexts == { <<>>, <<"<?php echo 1;">> }

\* ---------------------------------------------------------------- settings
\* workspace.getConfiguration("phpcsfixer"): what the settings store may hold.
Setting(e, r, c, o) == [set |-> TRUE, execPath |-> e, rules |-> r, config |-> c, onsave |-> o]
\* this.config before the first successful read.
NoConfig == [set |-> FALSE]

ExecPaths == { Undefined, StringVal(<<"${workspaceFolder}", "/", "fixer">>) }
RuleValues ==
  { Undefined, StringVal(<<>>), StringVal(<<"@PSR2">>),
    ObjectVal(<< <<"@PSR2", "true">>, <<"strict", "false">> >>) }
\* Entries of the `config` setting: empty, relative, absolute, home-relative.
Entries ==
  { <<>>, <<"a.php">>, <<"b.php">>, <<"/etc", "/", "c.php">>, <<"~/", "d.php">> }
ConfigTexts(n) == { Join(l, ";") : l \in SeqsOf(Entries, 0, n) }

\* The settings of the fix life cycle (Spec) and of argument building (SpecArgs).
SettingsFix ==
  { Setting(StringVal(<<"${workspaceFolder}", "/", "fixer">>), StringVal(<<"@PSR2">>),
            <<"a.php">>, o) : o \in BOOLEAN }
SettingsArgs ==
  { Setting(Undefined, r, c, FALSE) : r \in RuleValues, c \in ConfigTexts(MaxEntries) }

\* Config files that may exist on disk.
Files ==
  { Root \o <<"/", ".vscode", "/", "a.php">>, Root \o <<"/", "a.php">>,
    Root \o <<"/", ".vscode", "/", "b.php">>, Root \o <<"/", "b.php">>,
    <<"/etc", "/", "c.php">>, HomeDir \o <<"/", "d.php">> }
DisksFix == { {Root \o <<"/", "a.php">>} }

\* ------------------------------------------------------------------- state
VARIABLES
  isReloadingConfig,  \* PHPCSFIXER.isReloadingConfig
  isFixing,           \* PHPCSFIXER.isFixing
  config,             \* PHPCSFIXER.config
  fixOnSave,          \* PHPCSFIXER.fixOnSave: TRUE when it holds a Disposable
  execPath,           \* PHPCSFIXER.execPath
  realExecPath,       \* PHPCSFIXER.realExecPath
  activated,          \* activate() has run: its listeners are registered
  saveHooks,          \* live save listeners registered by readConfig
  procs,              \* child processes spawned and not yet terminated
  temps,              \* temp files written whose unlink was not yet requested
  tempDir,            \* the temp directory: path -> content, or NoFile
  unlinks,            \* unlink requests not yet performed: path -> count
  disk,               \* the config files that exist on disk
  nOps,               \* fix requests accepted so far
  ev                  \* what the last handler did (calls it made, promise it settled)

vars == <<isReloadingConfig, isFixing, config, fixOnSave, execPath, realExecPath,
          activated, saveHooks, procs, temps, tempDir, unlinks, disk, nOps, ev>>

fields == <<isReloadingConfig, isFixing, config, fixOnSave, execPath, realExecPath>>

\* An entry of the temp directory: StringVal(content), or NoFile.
NoFile == [t |-> "nofile", s |-> <<>>]

\* tmpdir() + fsPath.replace(/^.*[\\/]/, '/')
TempPathOf(fsPath) ==
  LET i == LastIndex(fsPath, "/", Len(fsPath))
  IN IF i = 0 THEN TmpDir \o fsPath
     ELSE TmpDir \o <<"/">> \o SubSeq(fsPath, i + 1, Len(fsPath))

TempPaths == { TempPathOf(d) : d \in Docs }

\* ------------------------------------------------------------ notifications
\* showView(type, message): the host call it makes.
showView(type, message) ==
  CASE type = "success" -> << [call |-> "setStatusBarMessage", msg |-> message] >>
    [] type = "info" -> << [call |-> "showInformationMessage", msg |-> message] >>
    [] type = "error" -> << [call |-> "showErrorMessage", msg |-> message] >>
    [] type = "warning" -> << [call |-> "showWarningMessage", msg |-> message] >>
    [] OTHER -> << >>

\* ------------------------------------------------------------- readConfig
RECURSIVE ReplaceFirst(_, _, _)
\* s.replace(tok, rep) with a string pattern: the first occurrence only.
ReplaceFirst(s, tok, rep) ==
  IF s = <<>> THEN <<>>
  ELSE IF Head(s) = tok THEN rep \o Tail(s)
  ELSE <<Head(s)>> \o ReplaceFirst(Tail(s), tok, rep)

\* (config.execPath || 'php-cs-fixer').replace('${extensionPath}', __dirname)
\*                                     .replace(/^~\//, homedir() + '/')
ResolveExecPath(cfg) ==
  LET raw == IF Truthy(cfg.execPath) THEN cfg.execPath.s ELSE <<"php-cs-fixer">>
  IN StringVal(ExpandHome(ReplaceFirst(raw, "${extensionPath}", ExtensionDir)))

\* The fields readConfig works on, as a record.
Self == [isReloadingConfig |-> isReloadingConfig, config |-> config,
         fixOnSave |-> fixOnSave, execPath |-> execPath, saveHooks |-> saveHooks]

\* readConfig without the test of this.fixOnSave before registering.
readConfigReregisters(self, raw, throws) ==
  IF self.isReloadingConfig THEN self
  ELSE IF throws THEN [self EXCEPT !.isReloadingConfig = FALSE]
  ELSE LET register == raw.onsave
           dispose == ~raw.onsave /\ self.fixOnSave
       IN [isReloadingConfig |-> FALSE,
           config |-> raw,
           fixOnSave |-> IF register THEN TRUE ELSE IF dispose THEN FALSE ELSE self.fixOnSave,
           saveHooks |-> IF register THEN self.saveHooks + 1
                         ELSE IF dispose THEN self.saveHooks - 1 ELSE self.saveHooks,
           execPath |-> ResolveExecPath(raw)]

\* readConfig storing the settings before the read fails.
readConfigStoresOnFailure(self, raw, throws) ==
  IF self.isReloadingConfig THEN self
  ELSE IF throws THEN [self EXCEPT !.isReloadingConfig = FALSE, !.config = raw]
  ELSE LET register == raw.onsave /\ ~self.fixOnSave
           dispose == ~raw.onsave /\ self.fixOnSave
       IN [isReloadingConfig |-> FALSE,
           config |-> raw,
           fixOnSave |-> IF register THEN TRUE ELSE IF dispose THEN FALSE ELSE self.fixOnSave,
           saveHooks |-> IF register THEN self.saveHooks + 1
                         ELSE IF dispose THEN self.saveHooks - 1 ELSE self.saveHooks,
           execPath |-> ResolveExecPath(raw)]

\* readConfig without the reset of the guard in its catch block.
readConfigKeepsGuard(self, raw, throws) ==
  IF self.isReloadingConfig THEN self
  ELSE IF throws THEN [self EXCEPT !.isReloadingConfig = TRUE]
  ELSE LET register == raw.onsave /\ ~self.fixOnSave
           dispose == ~raw.onsave /\ self.fixOnSave
       IN [isReloadingConfig |-> FALSE,
           config |-> raw,
           fixOnSave |-> IF register THEN TRUE ELSE IF dispose THEN FALSE ELSE self.fixOnSave,
           saveHooks |-> IF register THEN self.saveHooks + 1
                         ELSE IF dispose THEN self.saveHooks - 1 ELSE self.saveHooks,
           execPath |-> ResolveExecPath(raw)]

\* readConfig(): raw is what getConfiguration returns, throws whether it throws.
readConfig(self, raw, throws) ==
  IF self.isReloadingConfig THEN self
  ELSE IF throws THEN [self EXCEPT !.isReloadingConfig = FALSE]
  ELSE LET register == raw.onsave /\ ~self.fixOnSave
           dispose == ~raw.onsave /\ self.fixOnSave
       IN [isReloadingConfig |-> FALSE,
           config |-> raw,
           fixOnSave |-> IF register THEN TRUE ELSE IF dispose THEN FALSE ELSE self.fixOnSave,
           saveHooks |-> IF register THEN self.saveHooks + 1
                         ELSE IF dispose THEN self.saveHooks - 1 ELSE self.saveHooks,
           execPath |-> ResolveExecPath(raw)]

\* The object as the field initialisers leave it, before the constructor's read.
Constructed == [isReloadingConfig |-> FALSE, config |-> NoConfig, fixOnSave |-> FALSE,
                execPath |-> Undefined, saveHooks |-> 0]

ApplyReadConfig(raw, throws) ==
  LET r == readConfig(Self, raw, throws)
  IN /\ isReloadingConfig' = r.isReloadingConfig
     /\ config' = r.config
     /\ fixOnSave' = r.fixOnSave
     /\ execPath' = r.execPath
     /\ saveHooks' = r.saveHooks

\* workspace.onDidChangeConfiguration -> WD.onDidChangeConfiguration()
ConfigChange(raw, throws) ==
  /\ activated
  /\ ApplyReadConfig(raw, throws)
  /\ ev' = [kind |-> "config", threw |-> throws, hadHook |-> fixOnSave, raw |-> raw]
  /\ UNCHANGED <<isFixing, realExecPath, activated, procs, temps, tempDir, unlinks, disk, nOps>>

\* activate(context): one reload, then the listeners and the provider.
Activate(raw, throws) ==
  /\ ~activated
  /\ activated' = TRUE
  /\ ApplyReadConfig(raw, throws)
  /\ ev' = [kind |-> "activate", threw |-> throws, hadHook |-> fixOnSave, raw |-> raw]
  /\ UNCHANGED <<isFixing, realExecPath, procs, temps, tempDir, unlinks, disk, nOps>>

\* ----------------------------------------------------------------- getArgs
RECURSIVE MapExpandHome(_)
MapExpandHome(l) ==
  IF l = <<>> THEN <<>> ELSE <<ExpandHome(Head(l))>> \o MapExpandHome(Tail(l))

\* The two search paths in the other order.
SearchPathsRootFirst(rootPath) ==
  << rootPath \o <<"/">>, rootPath \o <<"/">> \o <<".vscode", "/">> >>

\* ['.vscode', ''].map(f => rootPath + '/' + (f ? f + '/' : ''))
SearchPathsOf(rootPath) ==
  << rootPath \o <<"/">> \o <<".vscode", "/">>, rootPath \o <<"/">> >>

RECURSIVE PrefixEach(_, _)
\* for (const searchPath of searchPaths) files.push(searchPath + file)
PrefixEach(searchPaths, file) ==
  IF searchPaths = <<>> THEN <<>>
  ELSE <<Head(searchPaths) \o file>> \o PrefixEach(Tail(searchPaths), file)

RECURSIVE CandidateFiles(_, _)
\* for (const file of cFiles) { absolute: push it; else one push per search path }
CandidateFiles(cFiles, searchPaths) ==
  IF cFiles = <<>> THEN <<>>
  ELSE (IF isAbsolute(Head(cFiles)) THEN <<Head(cFiles)>>
        ELSE PrefixEach(searchPaths, Head(cFiles)))
       \o CandidateFiles(Tail(cFiles), searchPaths)

RECURSIVE ScanFiles(_, _, _)
\* for (i = 0; i < len; i++) if (existsSync(files[i])) { push; useConfig = true; break }
\* The flags pushed, scanning from position i on.
ScanFiles(files, onDisk, i) ==
  IF i > Len(files) THEN <<>>
  ELSE IF files[i] \in onDisk THEN << <<"--config=">> \o files[i] >>
  ELSE ScanFiles(files, onDisk, i + 1)

RECURSIVE JoinPairs(_)
JoinPairs(o) ==
  IF o = <<>> THEN <<>>
  ELSE <<"\"", Head(o)[1], "\"", ":", Head(o)[2]>>
       \o (IF Len(o) > 1 THEN <<",">> ELSE <<>>) \o JoinPairs(Tail(o))

\* JSON.stringify of a structured mapping.
JSONStringify(o) == <<"{">> \o JoinPairs(o) \o <<"}">>

\* The rules flag without the test of useConfig.
RulesFlagAlways(useConfig, rules) ==
  IF Truthy(rules)
  THEN IF rules.t = "object" THEN << <<"--rules=">> \o JSONStringify(rules.s) >>
       ELSE << <<"--rules=">> \o rules.s >>
  ELSE <<>>

\* if (!useConfig && this.config.rules) push '--rules=' + (object: JSON, else as is)
RulesFlag(useConfig, rules) ==
  IF ~useConfig /\ Truthy(rules)
  THEN IF rules.t = "object" THEN << <<"--rules=">> \o JSONStringify(rules.s) >>
       ELSE << <<"--rules=">> \o rules.s >>
  ELSE <<>>

\* execPath.replace(/^\$\{workspace(Root|Folder)\}/, by)
ReplaceWorkspace(path, by) ==
  IF path # <<>> /\ Head(path) \in {"${workspaceRoot}", "${workspaceFolder}"}
  THEN by \o Tail(path) ELSE path

\* getArgs(): cfg and exec are this.config and this.execPath, fsPath the active
\* document, wfOpen whether workspace.workspaceFolders is defined, onDisk the
\* files existsSync finds. The result: the arguments, and what realExecPath was set to
\* (threw: the TypeError of reading a setting of an undefined configuration).
getArgs(cfg, exec, fsPath, wfOpen, onDisk) ==
  LET rootPath == WorkspaceFolderOf(fsPath)
      base == << <<"fix">>, <<"--using-cache=no">>, <<"--path-mode=override">>, <<"-vv">> >>
  IN IF ~cfg.set THEN [threw |-> TRUE, args |-> base, setReal |-> FALSE, realExecPath |-> Undefined]
     ELSE
       LET cFiles == MapExpandHome(Filter(Split(cfg.config, ";"), <<>>))
           real == IF wfOpen
                   THEN StringVal(ReplaceWorkspace(exec.s,
                                    IF Truthy(rootPath) THEN rootPath.s ELSE Root))
                   ELSE Undefined
           searchPaths == IF rootPath # Undefined THEN SearchPathsOf(rootPath.s) ELSE <<>>
           files == CandidateFiles(cFiles, searchPaths)
           configFlag == ScanFiles(files, onDisk, 1)
           useConfig == configFlag # <<>>
       IN [threw |-> FALSE,
           args |-> base \o configFlag \o RulesFlag(useConfig, cfg.rules),
           setReal |-> TRUE,
           realExecPath |-> real]

\* ------------------------------------------------------------- fixDocument
\* A promise: still pending, or settled with a value.
Pending == [how |-> "pending", val |-> Undefined]
Resolved(v) == [how |-> "resolve", val |-> v]
Rejected(v) == [how |-> "reject", val |-> v]

\* The guard left out: every request is accepted.
NeverBusy == FALSE

\* if (this.isFixing) return
Busy == isFixing

\* A child process as spawn returns it: nothing read from it yet. oText is the
\* document text the handlers of the formatting request close over.
NewProc(path, oText) ==
  [path |-> path, oText |-> oText, err |-> <<>>, views |-> <<>>, ran |-> FALSE]

\* The promise registerDocumentProvider returns, for a document text oText and
\* the outcome settle of its call of fixDocument: a list of edits, each the
\* replacement of the whole document by newText, or a rejection.
\* text != oText is true for the undefined of a dropped request.
registerDocumentProvider(oText, settle) ==
  CASE settle.how = "resolve" ->
         [how |-> "resolve",
          edits |-> IF settle.val # StringVal(oText) THEN << [newText |-> settle.val] >>
                    ELSE << >>,
          err |-> Undefined]
    [] settle.how = "reject" -> [how |-> "reject", edits |-> << >>, err |-> settle.val]
    [] OTHER -> [how |-> "pending", edits |-> << >>, err |-> Undefined]

Without(f, k) == [x \in DOMAIN f \ {k} |-> f[x]]

\* fixDocument(text), up to the promise it returns. fsPath is the active document,
\* wfOpen whether a workspace is open, fail the call that throws, if any
\* (writeFileSync or spawn).
FixDocument(fsPath, text, wfOpen, fail) ==
  /\ activated
  /\ Truthy(WorkspaceFolderOf(fsPath)) => wfOpen
  /\ IF Busy
     THEN /\ ev' = [kind |-> "fixDocument", accepted |-> FALSE, op |-> 0,
                    settle |-> Resolved(Undefined), shown |-> <<>>, spawned |-> FALSE,
                    provider |-> registerDocumentProvider(text, Resolved(Undefined))]
          /\ UNCHANGED <<fields, activated, saveHooks, procs, temps, tempDir, unlinks, disk, nOps>>
     ELSE
       LET id == nOps + 1
           filePath == TempPathOf(fsPath)
           wrote == fail # "write"
           g == getArgs(config, execPath, fsPath, wfOpen, disk)
           gotArgs == wrote /\ ~g.threw
           spawned == gotArgs /\ fail # "spawn"
           exec == IF Truthy(g.realExecPath) THEN g.realExecPath ELSE execPath
           settle == IF spawned THEN Pending
                     ELSE Rejected(ErrorVal(IF ~wrote THEN "writeFileSync"
                                            ELSE IF g.threw THEN "TypeError"
                                            ELSE "spawn"))
       IN /\ nOps < MaxOps
          /\ nOps' = id
          /\ isFixing' = TRUE
          /\ tempDir' = IF wrote THEN [tempDir EXCEPT ![filePath] = StringVal(text)] ELSE tempDir
          /\ temps' = IF wrote THEN temps \cup {[op |-> id, path |-> filePath]} ELSE temps
          /\ realExecPath' = IF wrote /\ g.setReal THEN g.realExecPath ELSE realExecPath
          /\ procs' = IF spawned THEN procs @@ (id :> NewProc(filePath, text)) ELSE procs
          /\ ev' = [kind |-> "fixDocument", accepted |-> TRUE, op |-> id,
                    settle |-> settle, shown |-> <<>>, spawned |-> spawned,
                    provider |-> registerDocumentProvider(text, settle),
                    exec |-> exec, args |-> IF gotArgs THEN g.args \o <<filePath>> ELSE <<>>]
          /\ UNCHANGED <<isReloadingConfig, config, fixOnSave, execPath, activated,
                         saveHooks, unlinks, disk>>

\* ---------------------------------------------------------- process events
Marker == <<"Files that were not fixed due to errors reported during linting ", "before fixing:">>
\* (the source's text has back quotes around the two file names)
Outdated == <<"Configuration file .php_cs is outdated, rename to .php-cs-fixer.php.">>

\* err.split('before fixing:')[1], which string concatenation prints as the
\* word undefined when there is no second piece
AfterBeforeFixing(err) ==
  LET parts == Split(err, "before fixing:")
  IN IF Len(parts) >= 2 THEN parts[2] ELSE <<"undefined">>

\* process.stderr.on('data', ...): the notifications one chunk leads to.
onStderr(err) ==
  IF Includes(err, Marker)
  THEN showView("error", <<"phpcsfixer: php syntax error">> \o AfterBeforeFixing(err))
  ELSE IF Includes(err, Outdated) THEN showView("info", Outdated)
  ELSE <<>>

\* What a process may write to stderr in one data event: the two halves of the
\* lint marker (split cuts between them) and a text after it. The outdated-file
\* notice, which no property here is about, is not written.
StderrTokens == {Marker[1], Marker[2], " detail"}
Chunks == SeqsOf(StderrTokens, 1, MaxStderr)

StderrData(p, chunk) ==
  /\ p \in DOMAIN procs
  /\ Len(procs[p].err) + Len(chunk) <= MaxStderr
  /\ procs' = [procs EXCEPT ![p].err = @ \o chunk,
                            ![p].views = @ \o onStderr(chunk),
                            ![p].ran = TRUE]
  /\ ev' = [kind |-> "stderr", op |-> p, shown |-> onStderr(chunk)]
  /\ UNCHANGED <<fields, activated, saveHooks, temps, tempDir, unlinks, disk, nOps>>

\* The formatter rewrites the file it was given.
ProcWrite(p, content) ==
  /\ p \in DOMAIN procs
  /\ tempDir' = [tempDir EXCEPT ![procs[p].path] = StringVal(content)]
  /\ procs' = [procs EXCEPT ![p].ran = TRUE]
  /\ ev' = [kind |-> "write", op |-> p]
  /\ UNCHANGED <<fields, activated, saveHooks, temps, unlinks, disk, nOps>>

\* The errors a child process reports when it cannot be started.
SpawnErrors == {ErrorVal("ENOENT"), ErrorVal("EACCES")}

\* The error handler reporting the error's message as a notification.
onErrorNotifies(err) ==
  [settle |-> Rejected(err), shown |-> showView("error", err.s)]

\* process.on("error", err => { reject(err) })
onError(err) == [settle |-> Rejected(err), shown |-> <<>>]

\* The child emits error: the spawn failed; Node emits error instead of exit for
\* such a child, and nothing else after it.
ProcError(p, err) ==
  /\ p \in DOMAIN procs
  /\ ~procs[p].ran
  /\ procs' = Without(procs, p)
  /\ LET r == onError(err)
     IN ev' = [kind |-> "error", op |-> p, err |-> err, settle |-> r.settle,
               shown |-> r.shown, path |-> procs[p].path,
               provider |-> registerDocumentProvider(procs[p].oText, r.settle)]
  /\ UNCHANGED <<fields, activated, saveHooks, temps, tempDir, unlinks, disk, nOps>>

\* What the process may exit with: 0, the codes of the table, codes outside it.
ExitCodes == {0, 1, 2, 16, 32, 64, 255}

\* The table with the messages of 32 and 64 exchanged.
ExitMessageSwapped(code) ==
  CASE code = 1 -> <<"PHP CS Fixer: php general error.">>
    [] code = 16 -> <<"PHP CS Fixer: Configuration error of the application.">>
    [] code = 64 -> <<"PHP CS Fixer: Configuration error of a Fixer.">>
    [] code = 32 -> <<"PHP CS Fixer: Exception raised within the application.">>
    [] OTHER -> <<"PHP CS Fixer: Unknown error.">>

\* The table with the fallback entry holding the message of code 1.
ExitMessageGeneralFallback(code) ==
  CASE code = 1 -> <<"PHP CS Fixer: php general error.">>
    [] code = 16 -> <<"PHP CS Fixer: Configuration error of the application.">>
    [] code = 32 -> <<"PHP CS Fixer: Configuration error of a Fixer.">>
    [] code = 64 -> <<"PHP CS Fixer: Exception raised within the application.">>
    [] OTHER -> <<"PHP CS Fixer: php general error.">>

\* msgs[code in msgs ? code : 'fallback']
ExitMessage(code) ==
  CASE code = 1 -> <<"PHP CS Fixer: php general error.">>
    [] code = 16 -> <<"PHP CS Fixer: Configuration error of the application.">>
    [] code = 32 -> <<"PHP CS Fixer: Configuration error of a Fixer.">>
    [] code = 64 -> <<"PHP CS Fixer: Exception raised within the application.">>
    [] OTHER -> <<"PHP CS Fixer: Unknown error.">>

\* The exception for 16 left out.
ExitNoticeAlways(code, msg) == showView("error", msg)

\* if (code != 16) showView('error', msg)
ExitNotice(code, msg) == IF code # 16 THEN showView("error", msg) ELSE <<>>

\* The exit handler with the test of fixed.length inverted.
onExitInverted(code, file) ==
  IF code = 0
  THEN IF file = NoFile
       THEN [threw |-> TRUE, settle |-> Pending, shown |-> <<>>]
       ELSE [threw |-> FALSE,
             settle |-> IF Len(file.s) = 0 THEN Resolved(StringVal(file.s))
                        ELSE Rejected(Undefined),
             shown |-> showView("success", <<"PHP CS Fixer: Fixed all files!">>)]
  ELSE [threw |-> FALSE,
        settle |-> Rejected(StringVal(ExitMessage(code))),
        shown |-> ExitNotice(code, ExitMessage(code))]

\* The exit handler announcing success only for a non-empty result.
onExitQuietOnEmpty(code, file) ==
  IF code = 0
  THEN IF file = NoFile
       THEN [threw |-> TRUE, settle |-> Pending, shown |-> <<>>]
       ELSE [threw |-> FALSE,
             settle |-> IF Len(file.s) > 0 THEN Resolved(StringVal(file.s))
                        ELSE Rejected(Undefined),
             shown |-> IF Len(file.s) > 0
                       THEN showView("success", <<"PHP CS Fixer: Fixed all files!">>)
                       ELSE <<>>]
  ELSE [threw |-> FALSE,
        settle |-> Rejected(StringVal(ExitMessage(code))),
        shown |-> ExitNotice(code, ExitMessage(code))]

\* The body of process.on('exit', code => ...) up to its cleanup: file is the temp
\* directory's entry for filePath. threw: readFileSync found no file, and the
\* handler ends there.
onExit(code, file) ==
  IF code = 0
  THEN IF file = NoFile
       THEN [threw |-> TRUE, settle |-> Pending, shown |-> <<>>]
       ELSE [threw |-> FALSE,
             settle |-> IF Len(file.s) > 0 THEN Resolved(StringVal(file.s))
                        ELSE Rejected(Undefined),
             shown |-> showView("success", <<"PHP CS Fixer: Fixed all files!">>)]
  ELSE [threw |-> FALSE,
        settle |-> Rejected(StringVal(ExitMessage(code))),
        shown |-> ExitNotice(code, ExitMessage(code))]

\* unlink(filePath, (err) => { }); this.isFixing = false
ExitCleanup(p, path) ==
  /\ unlinks' = [unlinks EXCEPT ![path] = @ + 1]
  /\ temps' = {t \in temps : t.op # p}
  /\ isFixing' = FALSE

ProcExit(p, code) ==
  /\ p \in DOMAIN procs
  /\ LET path == procs[p].path
         r == onExit(code, tempDir[path])
     IN /\ procs' = Without(procs, p)
        /\ ev' = [kind |-> "exit", op |-> p, code |-> code, threw |-> r.threw,
                  settle |-> r.settle, shown |-> r.shown, path |-> path,
                  provider |-> registerDocumentProvider(procs[p].oText, r.settle)]
        /\ IF r.threw THEN UNCHANGED <<unlinks, temps, isFixing>>
           ELSE ExitCleanup(p, path)
  /\ UNCHANGED <<isReloadingConfig, config, fixOnSave, execPath, realExecPath,
                 activated, saveHooks, tempDir, disk, nOps>>

\* The thread pool performs an unlink requested earlier; its errors are ignored.
UnlinkDone(path) ==
  /\ unlinks[path] > 0
  /\ unlinks' = [unlinks EXCEPT ![path] = @ - 1]
  /\ tempDir' = [tempDir EXCEPT ![path] = NoFile]
  /\ ev' = [kind |-> "unlink", path |-> path]
  /\ UNCHANGED <<fields, activated, saveHooks, procs, temps, disk, nOps>>

\* ------------------------------------------------------------ save events
\* onDidSaveTextDocument(document): the format commands one call executes.
onDidSaveTextDocument(php) ==
  IF ~php THEN 0
  ELSE IF config.set /\ config.onsave = TRUE THEN 1 ELSE 0

\* The host delivers one save event to every live listener: the one activate
\* registered and those readConfig registered.
SaveEvent(php) ==
  /\ ev' = [kind |-> "save", php |-> php,
            listeners |-> (IF activated THEN 1 ELSE 0) + saveHooks,
            formatCalls |-> ((IF activated THEN 1 ELSE 0) + saveHooks) * onDidSaveTextDocument(php)]
  /\ UNCHANGED <<fields, activated, saveHooks, procs, temps, tempDir, unlinks, disk, nOps>>

\* ------------------------------------------------------------------- specs
\* new PHPCSFIXER(): the field initialisers, then the constructor's readConfig.
InitWith(settings, disks) ==
  /\ disk \in disks
  /\ \E raw \in settings, throws \in BOOLEAN :
       LET r == readConfig(Constructed, raw, throws)
       IN /\ isReloadingConfig = r.isReloadingConfig
          /\ config = r.config
          /\ fixOnSave = r.fixOnSave
          /\ execPath = r.execPath
          /\ saveHooks = r.saveHooks
  /\ isFixing = FALSE
  /\ realExecPath = Undefined
  /\ activated = FALSE
  /\ procs = <<>>
  /\ temps = {}
  /\ tempDir = [p \in TempPaths |-> NoFile]
  /\ unlinks = [p \in TempPaths |-> 0]
  /\ nOps = 0
  /\ ev = [kind |-> "init"]

Init == InitWith(SettingsFix, DisksFix)

Next ==
  \/ \E raw \in SettingsFix, throws \in BOOLEAN : Activate(raw, throws)
  \/ \E raw \in SettingsFix, throws \in BOOLEAN : ConfigChange(raw, throws)
  \/ \E fsPath \in Docs, text \in DocTexts, wfOpen \in BOOLEAN,
        fail \in {"none", "write", "spawn"} :
          \* what a dropped request does depends on none of its inputs: one
          \* choice stands for all
          /\ Busy => (text = <<>> /\ wfOpen /\ fail = "none")
          /\ FixDocument(fsPath, text, wfOpen, fail)
  \/ \E p \in DOMAIN procs, chunk \in Chunks : StderrData(p, chunk)
  \/ \E p \in DOMAIN procs, content \in Contents : ProcWrite(p, content)
  \/ \E p \in DOMAIN procs, err \in SpawnErrors : ProcError(p, err)
  \/ \E p \in DOMAIN procs, code \in ExitCodes : ProcExit(p, code)
  \/ \E path \in TempPaths : UnlinkDone(path)
  \/ \E php \in BOOLEAN : SaveEvent(php)

Spec == Init /\ [][Next]_vars

\* Argument building alone: every setting of SettingsArgs against every disk.
CallGetArgs(fsPath, wfOpen) ==
  /\ Truthy(WorkspaceFolderOf(fsPath)) => wfOpen
  /\ LET g == getArgs(config, execPath, fsPath, wfOpen, disk)
     IN /\ realExecPath' = IF g.setReal THEN g.realExecPath ELSE realExecPath
        /\ ev' = [kind |-> "getArgs", threw |-> g.threw, args |-> g.args,
                  fsPath |-> fsPath, wfOpen |-> wfOpen]
  /\ UNCHANGED <<isReloadingConfig, isFixing, config, fixOnSave, execPath, activated,
                 saveHooks, procs, temps, tempDir, unlinks, disk, nOps>>

InitArgs == InitWith(SettingsArgs, SUBSET Files)

NextArgs == \E fsPath \in Docs, wfOpen \in BOOLEAN : CallGetArgs(fsPath, wfOpen)

SpecArgs == InitArgs /\ [][NextArgs]_vars

\* ================================================================== claims

\* C1: fix operations never overlap: in every reachable state at most one child
\* process is spawned and not yet terminated, at most one temp file is written
\* and not yet released, and both belong to the same operation.
ActiveOps == DOMAIN procs \cup {t.op : t \in temps}
FixExclusive ==
  /\ Cardinality(DOMAIN procs) <= 1
  /\ Cardinality(temps) <= 1
  /\ Cardinality(ActiveOps) <= 1

\* A second operation runs, with its process and temp file, after the first ended.
FixExclusiveWitness ==
  /\ nOps = 2
  /\ DOMAIN procs = {2}
  /\ temps = {[op |-> 2, path |-> procs[2].path]}

\* C2: a fixDocument request made while isFixing is true returns undefined at
\* once: no process spawned, no notification, the temp directory, the pending
\* unlinks and every field of the coordinator as they were.
DroppedRequestIsNoOp ==
  [][(isFixing /\ ev'.kind = "fixDocument")
       => /\ ev'.settle = [how |-> "resolve", val |-> Undefined]
          /\ ev'.shown = <<>>
          /\ ~ev'.spawned
          /\ UNCHANGED <<fields, procs, temps, tempDir, unlinks, saveHooks, nOps>>]_vars

\* A request dropped while a process runs on its temp file.
DroppedRequestWitness ==
  /\ ev.kind = "fixDocument" /\ ~ev.accepted
  /\ isFixing
  /\ \E p \in DOMAIN procs : tempDir[procs[p].path] # NoFile

\* C3 (as claimed): after the exit or error event of an accepted operation the
\* busy flag is false and the temp file is gone, or its unlink is under way.
CleanedAfterTermination ==
  ev.kind \in {"exit", "error"}
    => /\ ~isFixing
       /\ tempDir[ev.path] = NoFile \/ unlinks[ev.path] > 0

\* C4: on exit code 0 with a non-empty temp file the promise is resolved with
\* exactly the content the file held when the handler ran, and the one
\* notification is the success message on the status bar.
ExitZeroResolvesWithContent ==
  [][\A p \in DOMAIN procs :
       ( /\ p \notin DOMAIN procs'
         /\ ev'.kind = "exit" /\ ev'.op = p /\ ev'.code = 0
         /\ tempDir[procs[p].path] # NoFile
         /\ tempDir[procs[p].path].s # <<>> )
       => /\ ev'.settle = [how |-> "resolve", val |-> tempDir[procs[p].path]]
          /\ ev'.shown = << [call |-> "setStatusBarMessage",
                             msg |-> <<"PHP CS Fixer: Fixed all files!">>] >>]_vars

\* An operation resolved with a non-empty text.
ExitZeroWitness ==
  /\ ev.kind = "exit" /\ ev.code = 0
  /\ ev.settle.how = "resolve" /\ ev.settle.val.s # <<>>

\* C5: on exit code 16 the promise is rejected with the message "PHP CS Fixer:
\* Configuration error of the application." and the handler notifies nothing.
Exit16RejectsSilently ==
  (ev.kind = "exit" /\ ev.code = 16)
    => /\ ev.settle = [how |-> "reject",
                       val |-> StringVal(<<"PHP CS Fixer: Configuration error of the application.">>)]
       /\ ev.shown = <<>>

Exit16Witness == ev.kind = "exit" /\ ev.code = 16 /\ ev.settle.how = "reject"

\* C6: on every nonzero exit code other than 16 the handler shows exactly one
\* error notification, whose text is the message the promise is rejected with;
\* for 64 that message is "PHP CS Fixer: Exception raised within the application."
NonzeroExitNotifiesItsMessage ==
  (ev.kind = "exit" /\ ev.code \notin {0, 16})
    => /\ Len(ev.shown) = 1
       /\ ev.shown[1].call = "showErrorMessage"
       /\ ev.settle = [how |-> "reject", val |-> StringVal(ev.shown[1].msg)]
       /\ ev.code = 64
            => ev.shown[1].msg = <<"PHP CS Fixer: Exception raised within the application.">>

Exit64Witness ==
  /\ ev.kind = "exit" /\ ev.code = 64
  /\ Len(ev.shown) = 1 /\ ev.settle.how = "reject"

\* C7 (as claimed): whenever the stderr output of a running process contains the
\* lint marker, an error notification containing the text that follows the
\* marker has been shown, however the output was cut into data events. (Stated
\* for outputs in which 'before fixing:' occurs once, so that the text after the
\* marker is what split('before fixing:')[1] yields on the whole output.)
DetailOf(err) == SubSeq(err, IndexOf(err, Marker) + Len(Marker), Len(err))
Occurrences(err, tok) == Cardinality({i \in 1..Len(err) : err[i] = tok})
LintDetailNotified ==
  \A p \in DOMAIN procs :
    (Includes(procs[p].err, Marker) /\ Occurrences(procs[p].err, "before fixing:") = 1)
      => \E i \in 1..Len(procs[p].views) :
           /\ procs[p].views[i].call = "showErrorMessage"
           /\ Includes(procs[p].views[i].msg, DetailOf(procs[p].err))

\* C8: the save hook of the coordinator is registered iff the configuration last
\* read has onsave true (never, before the first read), and never twice: one
\* live listener when fixOnSave is held, none when it is undefined.
HookRegistered == config.set /\ config.onsave
SaveHookMatchesOnsave ==
  /\ fixOnSave <=> HookRegistered
  /\ saveHooks = IF HookRegistered THEN 1 ELSE 0

\* A reload with onsave true when the hook was already registered.
SaveHookWitness ==
  /\ ev.kind = "config" /\ ~ev.threw /\ ev.hadHook
  /\ config.onsave /\ saveHooks = 1

\* The flags of an argument list that start with the given token.
FlagsOf(args, flag) == SelectSeq(args, LAMBDA a : a # <<>> /\ Head(a) = flag)

\* The lists of entries whose text is the `config` setting, without the empty ones.
EntryLists == SeqsOf(Entries, 0, MaxEntries)
NonEmpty(l) == SelectSeq(l, LAMBDA e : e # <<>>)

\* Candidate k of an entry: an absolute one (a home-relative one, expanded) has
\* itself as its only candidate, a relative one has <root>/.vscode/<entry>
\* before <root>/<entry>.
IsAbsEntry(e) == isAbsolute(ExpandHome(e))
CandidateOf(e, k) ==
  IF IsAbsEntry(e) THEN ExpandHome(e)
  ELSE IF k = 1 THEN Root \o <<"/", ".vscode", "/">> \o e
  ELSE Root \o <<"/">> \o e
Hit(l, i, k) == (k = 1 \/ ~IsAbsEntry(l[i])) /\ CandidateOf(l[i], k) \in disk
FirstHit(l, i, k) ==
  /\ Hit(l, i, k)
  /\ \A j \in 1..Len(l), m \in 1..2 : (j < i \/ (j = i /\ m < k)) => ~Hit(l, j, m)

\* C9: with the active document in the workspace root, getArgs passes as
\* --config= the first candidate that exists on disk, the candidates taken per
\* entry in configuration order and .vscode before the root for a relative
\* entry; it adds at most one --config flag, none when no candidate exists; and
\* every setting that has the same entries up to the one selected yields the
\* same flag.
ConfigDiscoveryOrder ==
  (ev.kind = "getArgs" /\ ~ev.threw /\ Truthy(WorkspaceFolderOf(ev.fsPath)))
    => \A l \in EntryLists :
         Join(l, ";") = config.config
           => LET n == NonEmpty(l)
                  flags == FlagsOf(ev.args, "--config=")
              IN /\ Len(flags) <= 1
                 /\ (\A i \in 1..Len(n), k \in 1..2 : ~Hit(n, i, k)) => flags = <<>>
                 /\ \A i \in 1..Len(n), k \in 1..2 :
                      FirstHit(n, i, k)
                        => /\ flags = << <<"--config=">> \o CandidateOf(n[i], k) >>
                           /\ \A l2 \in EntryLists :
                                LET n2 == NonEmpty(l2)
                                IN (Len(n2) >= i /\ SubSeq(n2, 1, i) = SubSeq(n, 1, i))
                                     => FlagsOf(getArgs([config EXCEPT !.config = Join(l2, ";")],
                                                        execPath, ev.fsPath, ev.wfOpen, disk).args,
                                                "--config=") = flags

\* The .vscode variant of the first entry is selected although its root variant
\* and the candidate of a later entry exist too.
ConfigDiscoveryWitness ==
  /\ ev.kind = "getArgs" /\ ~ev.threw
  /\ config.config = <<"a.php", ";", "/etc", "/", "c.php">>
  /\ {Root \o <<"/", ".vscode", "/", "a.php">>, Root \o <<"/", "a.php">>,
      <<"/etc", "/", "c.php">>} \subseteq disk
  /\ FlagsOf(ev.args, "--config=") = << <<"--config=">> \o Root \o <<"/", ".vscode", "/", "a.php">> >>

\* C10: getArgs adds at most one rule-selection flag. With a --config flag there
\* is no --rules flag, whatever `rules` is. Without one, a set `rules` (a mapping
\* or a non-empty string; JavaScript takes the empty string as unset) gives
\* exactly one --rules flag, the string as it is or the JSON text of the mapping,
\* and an unset `rules` gives neither flag.
TheMapping == << <<"@PSR2", "true">>, <<"strict", "false">> >>
TheMappingJSON ==
  <<"{", "\"", "@PSR2", "\"", ":", "true", ",", "\"", "strict", "\"", ":", "false", "}">>
RulesSet(r) == r.t = "object" \/ (r.t = "string" /\ r.s # <<>>)
RulePrecedence ==
  (ev.kind = "getArgs" /\ ~ev.threw)
    => LET cf == FlagsOf(ev.args, "--config=")
           rf == FlagsOf(ev.args, "--rules=")
           r == config.rules
       IN /\ Len(cf) + Len(rf) <= 1
          /\ cf # <<>> => rf = <<>>
          /\ (cf = <<>> /\ ~RulesSet(r)) => rf = <<>>
          /\ (cf = <<>> /\ r.t = "string" /\ r.s # <<>>) => rf = << <<"--rules=">> \o r.s >>
          /\ (cf = <<>> /\ r.t = "object")
               => (r.s = TheMapping /\ rf = << <<"--rules=">> \o TheMappingJSON >>)

\* A config file was found while `rules` is set: only --config is passed.
RulePrecedenceWitness ==
  /\ ev.kind = "getArgs" /\ ~ev.threw
  /\ RulesSet(config.rules)
  /\ Len(FlagsOf(ev.args, "--config=")) = 1

\* C11: a reload whose settings read throws leaves the stored configuration, the
\* resolved execPath, the save hook and its listener as they were, and the
\* reload guard released.
FailedReloadKeepsState ==
  [][(ev'.kind \in {"config", "activate"} /\ ev'.threw)
       => /\ config' = config
          /\ execPath' = execPath
          /\ fixOnSave' = fixOnSave
          /\ saveHooks' = saveHooks
          /\ ~isReloadingConfig']_vars

\* A failed reload that asked for the opposite of the onsave in force.
FailedReloadWitness ==
  /\ ev.kind = "config" /\ ev.threw
  /\ config.set /\ config.onsave /\ ~ev.raw.onsave
  /\ fixOnSave /\ saveHooks = 1

\* The rejection reason of the last exit handler, a string, as a token sequence.
ExitReason == ev.settle.val.s

RejectedWithString == ev.settle.how = "reject" /\ ev.settle.val.t = "string"

\* C12 (as claimed): a nonzero exit rejects with the message of a table in which
\* 16 is the configuration error of a fixer and 32 the configuration error of the
\* application.
ExitTableAsClaimed ==
  (ev.kind = "exit" /\ ev.code # 0)
    => /\ RejectedWithString
       /\ ev.code = 1 => ExitReason = <<"PHP CS Fixer: php general error.">>
       /\ ev.code = 16 => ExitReason = <<"PHP CS Fixer: Configuration error of a Fixer.">>
       /\ ev.code = 32
            => ExitReason = <<"PHP CS Fixer: Configuration error of the application.">>
       /\ ev.code = 64
            => ExitReason = <<"PHP CS Fixer: Exception raised within the application.">>
       /\ ev.code \notin {1, 16, 32, 64} => ExitReason = <<"PHP CS Fixer: Unknown error.">>

\* C12: a nonzero exit rejects with the message of the table 1 -> general error,
\* 16 -> configuration error of the application, 32 -> configuration error of a
\* fixer, 64 -> exception raised, any other code -> unknown error; the reason is
\* that message whether or not a notification was shown.
ExitTable ==
  (ev.kind = "exit" /\ ev.code # 0)
    => /\ RejectedWithString
       /\ ev.code = 1 => ExitReason = <<"PHP CS Fixer: php general error.">>
       /\ ev.code = 16
            => /\ ExitReason = <<"PHP CS Fixer: Configuration error of the application.">>
               /\ ev.shown = <<>>
       /\ ev.code = 32 => ExitReason = <<"PHP CS Fixer: Configuration error of a Fixer.">>
       /\ ev.code = 64
            => ExitReason = <<"PHP CS Fixer: Exception raised within the application.">>
       /\ ev.code \notin {1, 16, 32, 64} => ExitReason = <<"PHP CS Fixer: Unknown error.">>

\* An exit with 32.
ExitTableWitness ==
  /\ ev.kind = "exit" /\ ev.code = 32
  /\ ev.settle = [how |-> "reject",
                  val |-> StringVal(<<"PHP CS Fixer: Configuration error of a Fixer.">>)]

\* C13: when the process emits the error event, the fix is rejected with the
\* error object of the event, and the handler shows no notification.
ProcessErrorRejectsWithError ==
  ev.kind = "error"
    => /\ ev.err \in SpawnErrors
       /\ ev.settle = [how |-> "reject", val |-> ev.err]
       /\ ev.shown = <<>>

ProcessErrorWitness ==
  /\ ev.kind = "error"
  /\ ev.settle = [how |-> "reject", val |-> [t |-> "error", s |-> <<"EACCES">>]]

\* C14: when the process exits with 0 and the temporary file is empty, the fix is
\* rejected with no reason, and the success notification is shown all the same.
EmptyResultRejectsYetAnnounces ==
  [][\A p \in DOMAIN procs :
       (/\ ev'.kind = "exit" /\ ev'.op = p /\ ev'.code = 0
        /\ tempDir[procs[p].path] = StringVal(<<>>))
         => /\ ev'.settle = [how |-> "reject", val |-> Undefined]
            /\ Len(ev'.shown) = 1
            /\ ev'.shown[1].msg = <<"PHP CS Fixer: Fixed all files!">>
            /\ ev'.shown[1].call = "setStatusBarMessage"]_vars

EmptyResultWitness ==
  /\ ev.kind = "exit" /\ ev.code = 0
  /\ ev.settle = [how |-> "reject", val |-> Undefined]
  /\ tempDir[ev.path] = StringVal(<<>>)

\* C15: while a spawned process has emitted neither exit nor error, isFixing is
\* true, and a step that is not that process's exit or error (a fix request, a
\* reload, a save event, output of the process) keeps the flag set, keeps the
\* operation pending with its temporary file registered, spawns nothing, and, if
\* it is a fix request, drops it.
RunningProcessHoldsTheFlag ==
  [][\A p \in DOMAIN procs :
       /\ isFixing
       /\ ~(ev'.kind \in {"exit", "error"} /\ ev'.op = p)
            => /\ isFixing'
               /\ DOMAIN procs' = DOMAIN procs
               /\ procs'[p].path = procs[p].path
               /\ temps' = temps
               /\ nOps' = nOps
               /\ (ev'.kind = "fixDocument" /\ ev' # ev) => ~ev'.accepted]_vars

\* A reload that took effect while a process that has produced output runs.
RunningProcessWitness ==
  /\ ev.kind = "config" /\ ~ev.threw /\ ev.raw # NoConfig
  /\ isFixing
  /\ \E p \in DOMAIN procs : procs[p].ran /\ procs[p].err # <<>>

\* C16 (as claimed): the exit handler, for every exit code and for an empty or a
\* non-empty result alike, requests the deletion of the temporary file and resets
\* isFixing in the step in which it settles the promise, so that after an exit
\* event the flag is false and the next fix request is accepted.
ExitAlwaysFreesTheFlag ==
  [][/\ \A p \in DOMAIN procs :
          (ev'.kind = "exit" /\ ev'.op = p)
            => /\ ev'.settle # Pending
               /\ unlinks'[procs[p].path] = unlinks[procs[p].path] + 1
               /\ ~isFixing'
     /\ (ev.kind = "exit" /\ ev'.kind = "fixDocument") => ev'.accepted]_vars

\* C17: isReloadingConfig is false whenever no readConfig is executing, after a
\* read that succeeded as after one that threw, so that no configuration change
\* is ignored: a reload whose read succeeds stores the settings it read,
\* resolves execPath from them and brings the save hook in line with them, also
\* right after a reload that failed.
ReloadGuardReleased ==
  /\ ~isReloadingConfig
  /\ (ev.kind \in {"config", "activate"} /\ ~ev.threw)
       => /\ config = ev.raw
          /\ execPath = ResolveExecPath(ev.raw)
          /\ fixOnSave = ev.raw.onsave

\* A reload that changed onsave, whose read succeeded.
ReloadGuardWitness ==
  /\ ev.kind = "config" /\ ~ev.threw
  /\ config = ev.raw
  /\ ev.hadHook # fixOnSave

\* C18 (as claimed): whenever isFixing is true there is a spawned process that has
\* not yet exited; the flag is never left true with no process pending, neither
\* after a process error nor after a failure between setting the flag and
\* spawning.
BusyMeansProcessPending == isFixing => DOMAIN procs # {}

\* C19 (as claimed): the formatting provider answers a request dropped by the
\* busy guard with an empty list of edits, and answers with a replacement edit
\* only when fixDocument resolved with a text.
DroppedRequestYieldsNoEdit ==
  ev.kind \in {"fixDocument", "exit", "error"}
    => /\ (ev.kind = "fixDocument" /\ ~ev.accepted)
            => ev.provider = [how |-> "resolve", edits |-> << >>, err |-> Undefined]
       /\ ev.provider.edits # << >>
            => /\ ev.settle.how = "resolve"
               /\ ev.settle.val.t = "string"

\* C20 (as claimed): after activation, whatever reloads followed, one save event
\* of a PHP document runs the format command exactly once when onsave is true,
\* and a save event runs it zero times when onsave is false or the document is
\* not PHP.
SaveFormatsOnce ==
  (ev.kind = "save" /\ activated /\ config.set)
    => ev.formatCalls = IF ev.php /\ config.onsave THEN 1 ELSE 0

====
